---- MODULE Spec2Model ----
(***************************************************************************)
(* Model of ConvertXML's CSV -> ISO 20022 pain.001.001.09 conversion       *)
(* (src/src/pain001_v09.py).                                               *)
(*                                                                         *)
(* Text is modelled as a sequence of characters, each character a string.  *)
(* Three characters that have no printable form are named: TAB (a control  *)
(* character that Python also counts as whitespace), DEL (\x7f, a control  *)
(* character that is NOT whitespace for str.strip) and NONCHAR (U+FFFF, a  *)
(* code point a CSV cell may hold but that XML 1.0 forbids).               *)
(* Python's None is the one-element sequence None.                         *)
(***************************************************************************)
EXTENDS Integers, Sequences, FiniteSets, TLC

None == <<"None">>
TAB == "\t"
DEL == "<DEL>"
NONCHAR == "<U+FFFF>"

DIGITS == <<"0", "1", "2", "3", "4", "5", "6", "7", "8", "9">>
LOWER == <<"a", "b", "c", "d", "e", "f", "g", "h", "i", "j", "k", "l", "m",
           "n", "o", "p", "q", "r", "s", "t", "u", "v", "w", "x", "y", "z">>
UPPER == <<"A", "B", "C", "D", "E", "F", "G", "H", "I", "J", "K", "L", "M",
           "N", "O", "P", "Q", "R", "S", "T", "U", "V", "W", "X", "Y", "Z">>

Range(s) == {s[i] : i \in DOMAIN s}
IndexOf(s, c) == CHOOSE i \in DOMAIN s : s[i] = c

DigitSet == Range(DIGITS)
UpperSet == Range(UPPER)
LowerSet == Range(LOWER)
IsDigit(c) == c \in DigitSet
IsUpperLetter(c) == c \in UpperSet
IsLowerLetter(c) == c \in LowerSet
\* [\x00-\x1F\x7F]
IsControl(c) == c \in {TAB, DEL}
\* what str.strip() and the regex class \s treat as whitespace
IsSpace(c) == c \in {" ", TAB}

DigitVal(c) == IndexOf(DIGITS, c) - 1
DigitChar(n) == DIGITS[n + 1]

\* str.upper(), character by character
UpperChar(c) == IF IsLowerLetter(c) THEN UPPER[IndexOf(LOWER, c)] ELSE c
Upper(s) == [i \in DOMAIN s |-> UpperChar(s[i])]

\* str.replace(" ", "")
RemoveSpaces(s) == SelectSeq(s, LAMBDA c : c # " ")

\* str.strip()
LStrip(s) ==
    IF \A i \in DOMAIN s : IsSpace(s[i]) THEN <<>>
    ELSE SubSeq(s, CHOOSE i \in DOMAIN s : ~IsSpace(s[i]) /\ \A j \in 1..(i - 1) : IsSpace(s[j]),
                Len(s))
RStrip(s) ==
    IF \A i \in DOMAIN s : IsSpace(s[i]) THEN <<>>
    ELSE SubSeq(s, 1,
                CHOOSE i \in DOMAIN s : ~IsSpace(s[i]) /\ \A j \in (i + 1)..Len(s) : IsSpace(s[j]))
Strip(s) == RStrip(LStrip(s))

\* re.sub(r"[\x00-\x1F\x7F]", " ", s)
ControlToSpace(s) == [i \in DOMAIN s |-> IF IsControl(s[i]) THEN " " ELSE s[i]]

\* re.sub(r"\s+", " ", s): the first character of every run of whitespace
\* becomes a space and the rest of the run goes
CollapseSpaces(s) ==
    LET marked == [i \in DOMAIN s |->
                     [c |-> IF IsSpace(s[i]) THEN " " ELSE s[i],
                      keep |-> ~(IsSpace(s[i]) /\ i > 1 /\ IsSpace(s[i - 1]))]]
        kept == SelectSeq(marked, LAMBDA m : m.keep)
    IN  [i \in DOMAIN kept |-> kept[i].c]

\* strip first, then control characters to spaces, then collapse runs
normalize_text(s) ==
    LET s0 == IF s = None THEN <<>> ELSE s
    IN  CollapseSpaces(ControlToSpace(Strip(s0)))

MAX_NAME == 140
MAX_NIF == 35

\* ensure_len raises ValueError(f"{label} excede {max_len} caracteres: ...")
ensure_len(s, max_len) ==
    LET n == normalize_text(s)
    IN  [ok |-> Len(n) <= max_len, value |-> n]

(***************************************************************************)
(* IBAN                                                                    *)
(***************************************************************************)
IsAlnumUpper(c) == IsDigit(c) \/ IsUpperLetter(c)

\* ^[A-Z]{2}[0-9]{2}[A-Z0-9]{1,30}$
IBAN_REGEX(s) ==
    /\ Len(s) >= 5
    /\ Len(s) <= 34
    /\ IsUpperLetter(s[1]) /\ IsUpperLetter(s[2])
    /\ IsDigit(s[3]) /\ IsDigit(s[4])
    /\ \A i \in 5..Len(s) : IsAlnumUpper(s[i])

\* str(n) for a natural number: decimal digits, no leading zeros
RECURSIVE IntToStr(_)
IntToStr(n) ==
    IF n < 10 THEN <<DigitChar(n)>>
    ELSE IntToStr(n \div 10) \o <<DigitChar(n % 10)>>

\* ch if ch.isdigit() else str(ord(ch) - 55), for every character in turn
RECURSIVE IbanDigits(_)
IbanDigits(s) ==
    IF s = <<>> THEN <<>>
    ELSE (IF IsDigit(Head(s)) THEN <<Head(s)>>
          ELSE IntToStr(IndexOf(UPPER, Head(s)) + 9)) \o IbanDigits(Tail(s))

\* int(text) % m for a string of decimal digits.  Python's integers are
\* unbounded; the value is reduced digit by digit so that an 11-digit
\* operand stays within TLC's integer range.
RECURSIVE IntStrMod(_, _, _)
IntStrMod(text, m, acc) ==
    IF text = <<>> THEN acc
    ELSE IntStrMod(Tail(text), m, (acc * 10 + DigitVal(Head(text))) % m)

IBAN_CHUNK == 9

\* ChunkStep with the chunk added to the remainder shifted by nine places,
\* whatever the chunk's length
ChunkStepFixedShift(remainder, chunk) ==
    (remainder * (1000000000 % 97) + IntStrMod(chunk, 97, 0)) % 97

\* one pass of: remainder = int(str(remainder) + digits[i : i + 9]) % 97
ChunkStep(remainder, chunk) == IntStrMod(IntToStr(remainder) \o chunk, 97, 0)

\* for i in range(0, len(digits), 9): ...
RECURSIVE ChunkedMod97(_, _)
ChunkedMod97(digits, remainder) ==
    IF digits = <<>> THEN remainder
    ELSE LET n == IF Len(digits) < IBAN_CHUNK THEN Len(digits) ELSE IBAN_CHUNK
         IN  ChunkedMod97(SubSeq(digits, n + 1, Len(digits)),
                          ChunkStep(remainder, SubSeq(digits, 1, n)))

\* the value of `remainder` after the loop, for a text s that matched
iban_remainder(s) ==
    ChunkedMod97(IbanDigits(SubSeq(s, 5, Len(s)) \o SubSeq(s, 1, 4)), 0)

iban_is_valid(iban) ==
    LET s == Upper(RemoveSpaces(normalize_text(iban)))
    IN  IF ~IBAN_REGEX(s) THEN FALSE
        ELSE iban_remainder(s) = 1

(***************************************************************************)
(* BIC                                                                     *)
(***************************************************************************)
\* ^[A-Z]{4}[A-Z]{2}[A-Z0-9]{2}([A-Z0-9]{3})?$
BICFI_REGEX(s) ==
    /\ Len(s) \in {8, 11}
    /\ \A i \in 1..6 : IsUpperLetter(s[i])
    /\ \A i \in 7..Len(s) : IsAlnumUpper(s[i])

bicfi_is_valid(bicfi) == BICFI_REGEX(Upper(normalize_text(bicfi)))

(***************************************************************************)
(* Amounts.  A Decimal is [special, neg, coef, exp]: value (-1)^neg * coef *)
(* * 10^exp, or a NaN / Infinity when special says so.  A PaymentRow's     *)
(* amount, quantized to exponent -2, is kept as its integer number of      *)
(* cents.  Amounts in the model stay far below the 28 significant digits   *)
(* of Python's default Decimal context.                                    *)
(***************************************************************************)
AllDigits(s) == \A i \in DOMAIN s : IsDigit(s[i])

RECURSIVE StrToNat(_, _)
StrToNat(s, acc) ==
    IF s = <<>> THEN acc ELSE StrToNat(Tail(s), acc * 10 + DigitVal(Head(s)))

RECURSIVE Pow10(_)
Pow10(n) == IF n = 0 THEN 1 ELSE 10 * Pow10(n - 1)

\* index of the first character of s that is in set, 0 when there is none
FirstIn(s, set) ==
    IF \E i \in DOMAIN s : s[i] \in set
    THEN CHOOSE i \in DOMAIN s : s[i] \in set /\ \A j \in 1..(i - 1) : s[j] \notin set
    ELSE 0

\* str.replace(old, new) for single characters
ReplaceChar(s, old, new) == [i \in DOMAIN s |-> IF s[i] = old THEN new ELSE s[i]]
\* str.replace(old, "")
DeleteChar(s, old) == SelectSeq(s, LAMBDA c : c # old)

NotADecimal == [ok |-> FALSE, special |-> "", neg |-> FALSE, coef |-> 0, exp |-> 0]

\* the numeric-string grammar of decimal.Decimal(str):
\*   [sign] (digits [. [digits]] | . digits) [(e|E) [sign] digits]
\*   [sign] (Inf | Infinity | NaN | sNaN)     (case-insensitive)
\* surrounding whitespace is ignored
Decimal(v) ==
    LET s0 == Strip(v)
        signed == s0 # <<>> /\ Head(s0) \in {"+", "-"}
        neg == signed /\ Head(s0) = "-"
        body == IF signed THEN Tail(s0) ELSE s0
        word == Upper(body)
        e == FirstIn(body, {"e", "E"})
        mant == IF e = 0 THEN body ELSE SubSeq(body, 1, e - 1)
        epart == IF e = 0 THEN <<>> ELSE SubSeq(body, e + 1, Len(body))
        esigned == epart # <<>> /\ Head(epart) \in {"+", "-"}
        edigits == IF esigned THEN Tail(epart) ELSE epart
        eval == IF e = 0 \/ edigits = <<>> \/ ~AllDigits(edigits) THEN 0
                ELSE IF esigned /\ Head(epart) = "-" THEN 0 - StrToNat(edigits, 0)
                ELSE StrToNat(edigits, 0)
        dot == FirstIn(mant, {"."})
        ipart == IF dot = 0 THEN mant ELSE SubSeq(mant, 1, dot - 1)
        fpart == IF dot = 0 THEN <<>> ELSE SubSeq(mant, dot + 1, Len(mant))
        mantOk == /\ AllDigits(ipart) /\ AllDigits(fpart)
                  /\ Len(ipart) + Len(fpart) >= 1
        expOk == e = 0 \/ (edigits # <<>> /\ AllDigits(edigits))
    IN  IF word \in {<<"I", "N", "F">>, <<"I", "N", "F", "I", "N", "I", "T", "Y">>}
        THEN [ok |-> TRUE, special |-> "inf", neg |-> neg, coef |-> 0, exp |-> 0]
        ELSE IF word \in {<<"N", "A", "N">>, <<"S", "N", "A", "N">>}
        THEN [ok |-> TRUE, special |-> "nan", neg |-> neg, coef |-> 0, exp |-> 0]
        ELSE IF mantOk /\ expOk
        THEN [ok |-> TRUE, special |-> "", neg |-> neg,
              coef |-> StrToNat(ipart \o fpart, 0), exp |-> eval - Len(fpart)]
        ELSE NotADecimal

\* d <= 0 for a finite or infinite Decimal (a NaN raises instead)
DecimalLeqZero(d) == IF d.special = "inf" THEN d.neg ELSE d.neg \/ d.coef = 0

\* d.quantize(Decimal("0.01"), rounding=ROUND_HALF_UP) for a finite d > 0,
\* as the integer number of cents
QuantizeHalfUp(d) ==
    IF d.exp >= -2 THEN d.coef * Pow10(d.exp + 2)
    ELSE LET div == Pow10((0 - d.exp) - 2)
             q == d.coef \div div
             r == d.coef % div
         IN  IF 2 * r >= div THEN q + 1 ELSE q

\* err names the failure: InvalidAmount and NonPositiveAmount are the two
\* ValueErrors the function raises itself; DecimalSignal is the
\* decimal.InvalidOperation that escapes from "d <= 0" on a NaN and from
\* quantize on an Infinity
parse_decimal_eur(value) ==
    LET v_raw == normalize_text(value)
        v == IF "," \in Range(v_raw)
             THEN ReplaceChar(DeleteChar(v_raw, "."), ",", ".")
             ELSE v_raw
        d == Decimal(v)
    IN  IF ~d.ok THEN [ok |-> FALSE, value |-> 0, err |-> "InvalidAmount"]
        ELSE IF d.special = "nan" THEN [ok |-> FALSE, value |-> 0, err |-> "DecimalSignal"]
        ELSE IF DecimalLeqZero(d) THEN [ok |-> FALSE, value |-> 0, err |-> "NonPositiveAmount"]
        ELSE IF d.special = "inf" THEN [ok |-> FALSE, value |-> 0, err |-> "DecimalSignal"]
        ELSE [ok |-> TRUE, value |-> QuantizeHalfUp(d), err |-> ""]

\* f"{amount:.2f}" for an amount of exponent -2 given in cents
Fmt2(cents) ==
    LET frac == cents % 100
    IN  IntToStr(cents \div 100) \o <<".", DigitChar(frac \div 10), DigitChar(frac % 10)>>

(***************************************************************************)
(* Dates                                                                   *)
(***************************************************************************)
NoDate == [y |-> 0, m |-> 0, d |-> 0]

IsLeap(y) == (y % 4 = 0 /\ y % 100 # 0) \/ y % 400 = 0
DaysInMonth(y, m) ==
    IF m = 2 THEN (IF IsLeap(y) THEN 29 ELSE 28)
    ELSE IF m \in {4, 6, 9, 11} THEN 30 ELSE 31

\* %d : 3[0-1] | [1-2]\d | 0[1-9] | [1-9] | " "[1-9]
DayField(s) ==
    \/ Len(s) = 2 /\ AllDigits(s) /\ StrToNat(s, 0) \in 1..31
    \/ Len(s) = 1 /\ AllDigits(s) /\ StrToNat(s, 0) \in 1..9
    \/ Len(s) = 2 /\ s[1] = " " /\ IsDigit(s[2]) /\ DigitVal(s[2]) \in 1..9
\* %m : 1[0-2] | 0[1-9] | [1-9]
MonthField(s) ==
    \/ Len(s) = 2 /\ AllDigits(s) /\ StrToNat(s, 0) \in 1..12
    \/ Len(s) = 1 /\ AllDigits(s) /\ StrToNat(s, 0) \in 1..9
\* %Y : \d\d\d\d
YearField(s) == Len(s) = 4 /\ AllDigits(s)

\* datetime.strptime(v, "%d/%m/%Y").date(); any ValueError becomes
\* ValueError("Data inválida (esperado dd/mm/yyyy): ...")
parse_date_pt(value) ==
    LET v == normalize_text(value)
        s1 == FirstIn(v, {"/"})
        ds == IF s1 = 0 THEN <<>> ELSE SubSeq(v, 1, s1 - 1)
        r1 == IF s1 = 0 THEN <<>> ELSE SubSeq(v, s1 + 1, Len(v))
        s2 == FirstIn(r1, {"/"})
        ms == IF s2 = 0 THEN <<>> ELSE SubSeq(r1, 1, s2 - 1)
        ys == IF s2 = 0 THEN <<>> ELSE SubSeq(r1, s2 + 1, Len(r1))
        shaped == s1 # 0 /\ s2 # 0 /\ DayField(ds) /\ MonthField(ms) /\ YearField(ys)
        y == StrToNat(ys, 0)
        m == StrToNat(ms, 0)
        d == StrToNat(Strip(ds), 0)
    IN  IF shaped /\ y >= 1 /\ d <= DaysInMonth(y, m)
        THEN [ok |-> TRUE, value |-> [y |-> y, m |-> m, d |-> d]]
        ELSE [ok |-> FALSE, value |-> NoDate]

\* zero-padded decimal text of width w (strftime's %Y, %m, %d)
RECURSIVE Pad(_, _)
Pad(s, w) == IF Len(s) >= w THEN s ELSE Pad(<<"0">> \o s, w)

\* exec_date.strftime("%Y-%m-%d")
FmtDate(dt) ==
    Pad(IntToStr(dt.y), 4) \o <<"-">> \o Pad(IntToStr(dt.m), 2) \o <<"-">> \o Pad(IntToStr(dt.d), 2)

(***************************************************************************)
(* Column names and input cells                                            *)
(***************************************************************************)
Nome_ORDENANTE == <<"N", "o", "m", "e", "_", "O", "R", "D", "E", "N", "A", "N", "T", "E">>
NIF_ORDENANTE == <<"N", "I", "F", "_", "O", "R", "D", "E", "N", "A", "N", "T", "E">>
IBAN_ORDENANTE == <<"I", "B", "A", "N", "_", "O", "R", "D", "E", "N", "A", "N", "T", "E">>
BIC_ORDENANTE == <<"B", "I", "C", "_", "O", "R", "D", "E", "N", "A", "N", "T", "E">>
Data_EXECUCAO == <<"D", "a", "t", "a", "_", "E", "X", "E", "C", "U", "C", "A", "O">>
Valor == <<"V", "a", "l", "o", "r">>
Nome_FORNECEDOR == <<"N", "o", "m", "e", "_", "F", "O", "R", "N", "E", "C", "E", "D", "O", "R">>
IBAN_FORNECEDOR == <<"I", "B", "A", "N", "_", "F", "O", "R", "N", "E", "C", "E", "D", "O", "R">>
BIC_FORNECEDOR == <<"B", "I", "C", "_", "F", "O", "R", "N", "E", "C", "E", "D", "O", "R">>

CSV_HEADER == <<Nome_ORDENANTE, NIF_ORDENANTE, IBAN_ORDENANTE, BIC_ORDENANTE, Data_EXECUCAO,
                Valor, Nome_FORNECEDOR, IBAN_FORNECEDOR, BIC_FORNECEDOR>>

\* a string of n copies of character c
Repeat(c, n) == [i \in 1..n |-> c]

\* The header lines the reader is given: the exact header, two headers that
\* lack columns (one of them in another order), one whose Valor column has a
\* space after the delimiter, one whose Valor column is in lower case, and
\* an empty header line.  NoFieldnames is reader.fieldnames = None (no
\* header line at all).
NoFieldnames == <<None>>
HeaderChoices ==
    { CSV_HEADER,
      SubSeq(CSV_HEADER, 1, 8),
      SubSeq(CSV_HEADER, 7, 9) \o SubSeq(CSV_HEADER, 1, 4),
      [CSV_HEADER EXCEPT ![6] = <<" ">> \o Valor],
      [CSV_HEADER EXCEPT ![6] = <<"v", "a", "l", "o", "r">>],
      <<>>,
      NoFieldnames }

\* which of the nine columns a header name of HeaderChoices heads
IntendedCol(h) ==
    IF h \in Range(CSV_HEADER) THEN IndexOf(CSV_HEADER, h) ELSE IndexOf(CSV_HEADER, Valor)

\* A data line's nine cells, in CSV_HEADER order.  BaseCells is a valid
\* payment; CellChoices[i] are the other values tried in column i.
BaseCells ==
    << <<"A", "c", "m", "e">>,
       <<"1", "2", "3", "4", "5", "6", "7", "8", "9">>,
       <<"P", "T", "5", "0", "0", "0", "0", "2", "0", "1", "2", "3", "1", "2", "3", "4", "5", "6", "7", "8", "9", "0", "1", "5", "4">>,
       <<"A", "B", "C", "D", "P", "T", "P", "L">>,
       <<"3", "1", "/", "1", "2", "/", "2", "0", "2", "4">>,
       <<"1", "0", "0", ",", "0", "0">>,
       <<"B", "o", "b">>,
       <<"G", "B", "8", "2", "W", "E", "S", "T", "1", "2", "3", "4", "5", "6", "9", "8", "7", "6", "5", "4", "3", "2">>,
       <<"D", "E", "U", "T", "D", "E", "F", "F">> >>

CellChoices ==
    << \* Nome_ORDENANTE
       { <<"B", "e", "t", "a">>, Repeat("x", MAX_NAME + 1) },
       \* NIF_ORDENANTE
       { <<"9", "8", "7", "6", "5", "4", "3", "2", "1">>, <<"1", "2", "A">>, Repeat("1", MAX_NIF + 1) },
       \* IBAN_ORDENANTE
       { <<"G", "B", "8", "2", "W", "E", "S", "T", "1", "2", "3", "4", "5", "6", "9", "8", "7", "6", "5", "4", "3", "2">>, <<"P", "T", "5", "0", "0", "0", "0", "2", "0", "1", "2", "3", "1", "2", "3", "4", "5", "6", "7", "8", "9", "0", "1", "5", "5">> },
       \* BIC_ORDENANTE
       { <<"A", "B", "C", "D", "P", "T", "P", "L", "X", "X", "X">>, <<"A", "B", "C">>, <<"A", "B", "C", "D", "P", "T", "P", "L">> \o <<DEL>> },
       \* Data_EXECUCAO
       { <<"1", "/", "1", "/", "2", "0", "2", "5">>, <<"3", "1", "/", "1", "3", "/", "2", "0", "2", "4">> },
       \* Valor
       { <<"0", ".", "0", "0", "4">>, <<"0">>, <<"a", "b", "c">>, <<"N", "a", "N">> },
       \* Nome_FORNECEDOR
       { Repeat("y", MAX_NAME + 1), <<"B", "o", NONCHAR, "b">> },
       \* IBAN_FORNECEDOR
       { <<"G", "B", "8", "2", "W", "E", "S", "T", "1", "2", "3", "4", "5", "6", "9", "8", "7", "6", "5", "4", "3", "3">> },
       \* BIC_FORNECEDOR
       { <<"X", "X">>, <<DEL>> \o <<"D", "E", "U", "T", "D", "E", "F", "F">> }
    >>

\* lines that differ from BaseCells in several columns
DoubleChoices ==
    { [BaseCells EXCEPT ![1] = <<"B", "e", "t", "a">>, ![6] = <<"a", "b", "c">>],
      [BaseCells EXCEPT ![4] = <<"A", "B", "C", "D", "P", "T", "P", "L", "X", "X", "X">>, ![8] = <<"G", "B", "8", "2", "W", "E", "S", "T", "1", "2", "3", "4", "5", "6", "9", "8", "7", "6", "5", "4", "3", "3">>],
      [BaseCells EXCEPT ![2] = <<"9", "8", "7", "6", "5", "4", "3", "2", "1">>, ![5] = <<"2", "0", "2", "4", "-", "1", "2", "-", "3", "1">>],
      \* the same debtor written in lower case and with spaces, another
      \* amount, and a short line (no last cell, so no creditor BIC)
      [BaseCells EXCEPT ![3] = <<"p", "t", "5", "0", " ", "0", "0", "0", "2", " ", "0", "1", "2", "3", " ", "1", "2", "3", "4", " ", "5", "6", "7", "8", " ", "9", "0", "1", "5", " ", "4">>, ![4] = <<"a", "b", "c", "d", "p", "t", "p", "l">>, ![6] = <<"5", "0", ",", "5", "0">>, ![9] = None] }

LineChoices ==
    {BaseCells}
    \cup {[BaseCells EXCEPT ![i] = v] : <<i, v>> \in UNION {{<<j, w>> : w \in CellChoices[j]} : j \in 1..9}}
    \cup DoubleChoices

\* csv.DictReader: dict(zip(fieldnames, cells))
DictRow(names, cells) == [h \in Range(names) |-> cells[IntendedCol(h)]]

\* the rows a reader with the given header can yield (none without a header)
RowChoices(names) ==
    IF names = NoFieldnames THEN {} ELSE {DictRow(names, cells) : cells \in LineChoices}

\* row.get(col, "")
RowGet(row, col) == IF col \in DOMAIN row THEN row[col] ELSE <<>>

(***************************************************************************)
(* State                                                                   *)
(***************************************************************************)
VARIABLES
    fieldnames,   \* reader.fieldnames: the raw header names, or NoFieldnames
    xsd_path,     \* the xsd_path argument as the call finds it when it reads it:
                  \* "" until then, "None", "absent" (no file there) or "present"
    rows,         \* the rows the reader has yielded so far, in order
    line_no,      \* enumerate(reader, start=2): number of the next row
    batch,        \* <<>> for None, else <<BatchHeader>>
    payments,     \* the list of PaymentRow
    exec_dates,   \* the set of execution dates seen
    doc,          \* the element tree under construction, <<>> before it exists
    tx_i,         \* how many payments build_document's loop has emitted
    xml_out,      \* the serialized document, <<>> before it exists
    schema_result,\* "", "skipped", "valid" or "invalid"
    result,       \* <<>> until csv_to_pain09_xml returns, then <<the text returned>>
    error,        \* the exception that ended the call
    pc,           \* where the call is
    iban_in,      \* IbanSpec: the text given to iban_is_valid
    iban_out      \* IbanSpec: <<>> before the call, then <<[valid, matched, remainder]>>

vars == <<fieldnames, xsd_path, rows, line_no, batch, payments, exec_dates, doc, tx_i,
          xml_out, schema_result, result, error, pc, iban_in, iban_out>>

convVars == <<fieldnames, xsd_path, rows, line_no, batch, payments, exec_dates, doc, tx_i,
              xml_out, schema_result, result, error, pc>>

\* how many data rows one conversion reads
MaxRows == 3

(***************************************************************************)
(* Errors.  type names the failure; line is the row number the message     *)
(* carries (0: the message has none); label is the column name the message *)
(* carries ("": it has none); missing is the list in a "Faltam colunas"    *)
(* message.                                                                *)
(***************************************************************************)
NoError == [type |-> "", line |-> 0, label |-> "", missing |-> <<>>]
Err(type, line, label) == [type |-> type, line |-> line, label |-> label, missing |-> <<>>]

(***************************************************************************)
(* _parse_payments_reader                                                  *)
(***************************************************************************)
\* received = [normalize_text(h) ...]; missing = [c for c in CSV_HEADER if c not in set(received)]
MissingColumns(names) ==
    LET received == {normalize_text(names[i]) : i \in DOMAIN names}
    IN  SelectSeq(CSV_HEADER, LAMBDA c : c \notin received)

\* str.isdigit()
IsDigitStr(s) == s # <<>> /\ AllDigits(s)

\* DebtorDiffers without the comparison of the BIC
DebtorDiffersButBic(b, debtor_name, debtor_nif, debtor_iban, debtor_bicfi) ==
    \/ b.debtor_name # debtor_name
    \/ b.debtor_nif # debtor_nif
    \/ b.debtor_iban # debtor_iban

\* the comparison of a later row with the captured BatchHeader
DebtorDiffers(b, debtor_name, debtor_nif, debtor_iban, debtor_bicfi) ==
    \/ b.debtor_name # debtor_name
    \/ b.debtor_nif # debtor_nif
    \/ b.debtor_iban # debtor_iban
    \/ b.debtor_bicfi # debtor_bicfi

\* ExecDatesDiffer that tolerates two dates
ExecDatesMoreThanTwo(dates) == Cardinality(dates) > 2

\* if len(exec_dates) != 1
ExecDatesDiffer(dates) == Cardinality(dates) # 1

\* The values one pass of the loop body computes from row `row`, each as the
\* statement that computes it leaves it.
RowValues(row) ==
    [ name_r |-> ensure_len(RowGet(row, Nome_ORDENANTE), MAX_NAME),
      nif0 |-> normalize_text(RowGet(row, NIF_ORDENANTE)),
      debtor_iban |-> Upper(RemoveSpaces(normalize_text(RowGet(row, IBAN_ORDENANTE)))),
      debtor_bicfi |-> Upper(normalize_text(RowGet(row, BIC_ORDENANTE))),
      date_r |-> parse_date_pt(RowGet(row, Data_EXECUCAO)),
      amount_r |-> parse_decimal_eur(RowGet(row, Valor)),
      cname_r |-> ensure_len(RowGet(row, Nome_FORNECEDOR), MAX_NAME),
      creditor_iban |-> Upper(RemoveSpaces(normalize_text(RowGet(row, IBAN_FORNECEDOR)))),
      cbic0 |-> Upper(normalize_text(RowGet(row, BIC_FORNECEDOR))) ]

\* The statement of the loop body that raises, in the order the body runs
\* them (12: none does).  b is the batch captured so far.
RowStage(v, b) ==
    IF ~v.name_r.ok THEN 1
    ELSE IF ~IsDigitStr(v.nif0) THEN 2
    ELSE IF ~ensure_len(v.nif0, MAX_NIF).ok THEN 3
    ELSE IF ~iban_is_valid(v.debtor_iban) THEN 4
    ELSE IF ~bicfi_is_valid(v.debtor_bicfi) THEN 5
    ELSE IF ~v.date_r.ok THEN 6
    ELSE IF b # <<>> /\ DebtorDiffers(b[1], v.name_r.value, ensure_len(v.nif0, MAX_NIF).value,
                                      v.debtor_iban, v.debtor_bicfi) THEN 7
    ELSE IF ~v.amount_r.ok THEN 8
    ELSE IF ~v.cname_r.ok THEN 9
    ELSE IF ~iban_is_valid(v.creditor_iban) THEN 10
    ELSE IF v.cbic0 # <<>> /\ ~bicfi_is_valid(v.cbic0) THEN 11
    ELSE 12

\* The exception each statement raises, as far as its message goes:
\*   ensure_len          f"{label} excede {max_len} caracteres: {len(s)}"
\*   NIF, IBAN, BIC      f"Linha {line_no}: <column> inválido: ..."
\*   parse_date_pt       f"Data inválida (esperado dd/mm/yyyy): {value!r}"
\*   the batch check     f"Linha {line_no}: Ordenante diferente dentro do mesmo lote ..."
\*   parse_decimal_eur   f"Valor inválido: {value!r}", f"Montante deve ser > 0: {value!r}",
\*                       or a decimal.InvalidOperation without a message
RowError(stage, ln, amount_err) ==
    CASE stage = 1 -> Err("FieldTooLong", 0, "Nome_ORDENANTE")
      [] stage = 2 -> Err("InvalidTaxId", ln, "NIF_ORDENANTE")
      [] stage = 3 -> Err("FieldTooLong", 0, "NIF_ORDENANTE")
      [] stage = 4 -> Err("InvalidIban", ln, "IBAN_ORDENANTE")
      [] stage = 5 -> Err("InvalidBic", ln, "BIC_ORDENANTE")
      [] stage = 6 -> Err("InvalidDate", 0, "")
      [] stage = 7 -> Err("InconsistentDebtor", ln, "")
      [] stage = 8 -> Err(amount_err, 0, IF amount_err = "InvalidAmount" THEN "Valor" ELSE "")
      [] stage = 9 -> Err("FieldTooLong", 0, "Nome_FORNECEDOR")
      [] stage = 10 -> Err("InvalidIban", ln, "IBAN_FORNECEDOR")
      [] stage = 11 -> Err("InvalidBic", ln, "BIC_FORNECEDOR")
      [] OTHER -> NoError

RowOutcome(v, stage, ln) ==
    [ stage |-> stage,
      error |-> RowError(stage, ln, v.amount_r.err),
      header |-> [debtor_name |-> v.name_r.value,
                  debtor_nif |-> ensure_len(v.nif0, MAX_NIF).value,
                  debtor_iban |-> v.debtor_iban, debtor_bicfi |-> v.debtor_bicfi,
                  exec_date |-> v.date_r.value],
      payment |-> [creditor_name |-> v.cname_r.value, creditor_iban |-> v.creditor_iban,
                   creditor_bicfi |-> IF v.cbic0 # <<>> THEN v.cbic0 ELSE None,
                   amount |-> v.amount_r.value] ]

RowResult(v, ln, b) == RowOutcome(v, RowStage(v, b), ln)

\* one pass of the loop body for row `row`, numbered ln, with b the batch
\* captured so far
ParseRow(row, ln, b) == RowResult(RowValues(row), ln, b)

\* AppendPayment that inserts at the front
PrependPayment(list, payment) == <<payment>> \o list

\* payments.append(PaymentRow(...))
AppendPayment(list, payment) == Append(list, payment)

(***************************************************************************)
(* Document builder.  An element is [tag, text, attrib, children]; text is *)
(* None or a string, attrib a sequence of <<name, value>> pairs.           *)
(***************************************************************************)
El(tag, text, attrib, children) ==
    [tag |-> tag, text |-> text, attrib |-> attrib, children |-> children]
Leaf(tag, text) == El(tag, text, <<>>, <<>>)
Branch(tag, children) == El(tag, None, <<>>, children)

\* datetime.now() as [ymd, hms] digit strings, and uuid.uuid4().hex: one
\* instant and one draw, the identifiers made of them being free text that
\* nothing else reads
Clock == { [ymd |-> <<"2", "0", "2", "6", "1", "1", "0", "1">>, hms |-> <<"1", "3", "0", "6", "2", "7">>] }
UuidHex == { <<"d", "4", "b", "5", "1", "0", "3", "b">> }

\* strftime("%Y%m%d%H%M%S")
FmtStamp(now) == now.ymd \o now.hms
\* strftime("%Y-%m-%dT%H:%M:%S")
FmtCreDtTm(now) ==
    SubSeq(now.ymd, 1, 4) \o <<"-">> \o SubSeq(now.ymd, 5, 6) \o <<"-">> \o SubSeq(now.ymd, 7, 8)
    \o <<"T">> \o SubSeq(now.hms, 1, 2) \o <<":">> \o SubSeq(now.hms, 3, 4) \o <<":">>
    \o SubSeq(now.hms, 5, 6)

MAX_ID == 35

\* ensure_len("MsgId", f"{prefix}-{ts}-{rnd}", 35) with rnd = hex[:8].upper()
make_msg_id(now, hex) ==
    ensure_len(<<"C", "2", "B">> \o <<"-">> \o FmtStamp(now) \o <<"-">> \o Upper(SubSeq(hex, 1, 8)), MAX_ID)
\* ensure_len("PmtInfId", f"{prefix}-{ts}-{rnd}", 35) with rnd = hex[:6].upper()
make_pmt_inf_id(now, hex) ==
    ensure_len(<<"P", "M", "T">> \o <<"-">> \o FmtStamp(now) \o <<"-">> \o Upper(SubSeq(hex, 1, 6)), MAX_ID)

\* sum((r.amount for r in rows), Decimal("0.00"))
RECURSIVE SumAmounts(_, _)
SumAmounts(list, total) ==
    IF list = <<>> THEN total ELSE SumAmounts(Tail(list), total + Head(list).amount)

\* calc_ctrl_sum that leaves the first row out
CtrlSumWithoutFirst(list) == SumAmounts(Tail(list), 0)

\* total.quantize(Decimal("0.01"), ROUND_HALF_UP): the amounts already have
\* exponent -2, so the sum does too
calc_ctrl_sum(list) == SumAmounts(list, 0)

build_grp_hdr(b, list, msg_id, now) ==
    Branch("GrpHdr",
        << Leaf("MsgId", msg_id),
           Leaf("CreDtTm", FmtCreDtTm(now)),
           Leaf("NbOfTxs", IntToStr(Len(list))),
           Leaf("CtrlSum", Fmt2(calc_ctrl_sum(list))),
           Branch("InitgPty",
               << Leaf("Nm", b.debtor_name),
                  Branch("Id", << Branch("PrvtId", << Branch("Othr",
                      << Leaf("Id", b.debtor_nif) >>) >>) >>) >>) >>)

build_pmt_inf(b, list, pmt_inf_id) ==
    Branch("PmtInf",
        << Leaf("PmtInfId", pmt_inf_id),
           Leaf("PmtMtd", <<"T", "R", "F">>),
           Leaf("NbOfTxs", IntToStr(Len(list))),
           Leaf("CtrlSum", Fmt2(calc_ctrl_sum(list))),
           Branch("PmtTpInf",
               << Branch("SvcLvl", << Leaf("Cd", <<"S", "E", "P", "A">>) >>),
                  Branch("CtgyPurp", << Leaf("Cd", <<"S", "U", "P", "P">>) >>) >>),
           Branch("ReqdExctnDt", << Leaf("Dt", FmtDate(b.exec_date)) >>),
           Branch("Dbtr", << Leaf("Nm", b.debtor_name) >>),
           Branch("DbtrAcct",
               << Branch("Id", << Leaf("IBAN", b.debtor_iban) >>),
                  Leaf("Ccy", <<"E", "U", "R">>) >>),
           Branch("DbtrAgt", << Branch("FinInstnId", << Leaf("BICFI", b.debtor_bicfi) >>) >>) >>)

\* Python truthiness of an Optional[str]
Truthy(s) == s # None /\ s # <<>>

build_cdt_trf_tx_inf(row) ==
    Branch("CdtTrfTxInf",
        << Branch("PmtId", << Leaf("EndToEndId", <<"N", "O", "T", "P", "R", "O", "V", "I", "D", "E", "D">>) >>),
           Branch("Amt", << El("InstdAmt", Fmt2(row.amount), << <<"Ccy", <<"E", "U", "R">>>> >>, <<>>) >>) >>
        \o (IF Truthy(row.creditor_bicfi)
            THEN << Branch("CdtrAgt", << Branch("FinInstnId",
                       << Leaf("BICFI", row.creditor_bicfi) >>) >>) >>
            ELSE <<>>)
        \o << Branch("Cdtr", << Leaf("Nm", row.creditor_name) >>),
              Branch("CdtrAcct", << Branch("Id", << Leaf("IBAN", row.creditor_iban) >>) >>),
              Branch("Purp", << Leaf("Cd", <<"S", "U", "P", "P">>) >>),
              Branch("RmtInf", << Leaf("Ustrd", <<"P", "A", "G", "A", "M", "E", "N", "T", "O">>) >>) >>)

\* the payment build_document's loop takes at its i-th pass
NextPayment(list, i) == list[i]

\* the i-th child of node replaced / a child appended
AppendChild(node, child) == [node EXCEPT !.children = Append(@, child)]

(***************************************************************************)
(* Serializer.  The pretty-printed text is one line per element, in        *)
(* document order: [depth, tag, attrib, text].  minidom's parser rejects a *)
(* document holding a character XML 1.0 forbids (ExpatError).              *)
(***************************************************************************)
RECURSIVE Lines(_, _)
RECURSIVE LinesOfAll(_, _)
Lines(node, depth) ==
    << [depth |-> depth, tag |-> node.tag, attrib |-> node.attrib,
        text |-> IF node.text = None THEN <<>> ELSE node.text] >>
    \o LinesOfAll(node.children, depth + 1)
LinesOfAll(nodes, depth) ==
    IF nodes = <<>> THEN <<>>
    ELSE Lines(Head(nodes), depth) \o LinesOfAll(Tail(nodes), depth)

WellFormed(lines) == \A i \in DOMAIN lines : NONCHAR \notin Range(lines[i].text)

xml_pretty(tree) ==
    LET lines == Lines(tree, 0)
    IN  [ok |-> WellFormed(lines), value |-> lines]

(***************************************************************************)
(* csv_to_pain09_xml, step by step                                         *)
(***************************************************************************)
Fail(e) ==
    /\ pc' = "failed"
    /\ error' = e

Init ==
    /\ fieldnames \in HeaderChoices
    /\ xsd_path = ""
    /\ rows = <<>>
    /\ line_no = 2
    /\ batch = <<>>
    /\ payments = <<>>
    /\ exec_dates = {}
    /\ doc = <<>>
    /\ tx_i = 0
    /\ xml_out = <<>>
    /\ schema_result = ""
    /\ result = <<>>
    /\ error = NoError
    /\ pc = "header"
    /\ iban_in = <<>>
    /\ iban_out = <<>>

\* the header check that opens _parse_payments_reader
CheckHeader ==
    /\ pc = "header"
    /\ IF fieldnames = NoFieldnames
       THEN Fail(Err("NoHeader", 0, ""))
       ELSE IF MissingColumns(fieldnames) # <<>>
       THEN Fail([Err("MissingColumns", 0, "") EXCEPT !.missing = MissingColumns(fieldnames)])
       ELSE pc' = "rows" /\ error' = error
    /\ UNCHANGED <<fieldnames, xsd_path, rows, line_no, batch, payments, exec_dates, doc, tx_i,
                   xml_out, schema_result, result, iban_in, iban_out>>

\* one pass of "for line_no, row in enumerate(reader, start=2)"
ReadRow(row) ==
    /\ pc = "rows"
    /\ Len(rows) < MaxRows
    /\ \E out \in {ParseRow(row, line_no, batch)} :
           /\ rows' = Append(rows, row)
           /\ exec_dates' = IF out.stage > 6 THEN exec_dates \cup {out.header.exec_date}
                            ELSE exec_dates
           /\ batch' = IF out.stage > 6 /\ batch = <<>> THEN <<out.header>> ELSE batch
           /\ payments' = IF out.stage = 12 THEN AppendPayment(payments, out.payment)
                          ELSE payments
           /\ line_no' = IF out.stage = 12 THEN line_no + 1 ELSE line_no
           /\ error' = out.error
           /\ pc' = IF out.stage = 12 THEN "rows" ELSE "failed"
    /\ UNCHANGED <<fieldnames, xsd_path, doc, tx_i, xml_out, schema_result, result,
                   iban_in, iban_out>>

\* the reader is exhausted: the checks that follow the loop
EndOfRows ==
    /\ pc = "rows"
    /\ IF batch = <<>> \/ payments = <<>>
       THEN Fail(Err("EmptyBatch", 0, ""))
       ELSE IF ExecDatesDiffer(exec_dates)
       THEN Fail(Err("InconsistentExecutionDate", 0, "Data_EXECUCAO"))
       ELSE pc' = "grp_hdr" /\ error' = error
    /\ UNCHANGED <<fieldnames, xsd_path, rows, line_no, batch, payments, exec_dates, doc, tx_i,
                   xml_out, schema_result, result, iban_in, iban_out>>

\* build_document up to and including build_grp_hdr
BuildGrpHdr(now1, hex, now2) ==
    /\ pc = "grp_hdr"
    /\ LET id == make_msg_id(now1, hex)
       IN  IF ~id.ok
           THEN Fail(Err("FieldTooLong", 0, "MsgId")) /\ doc' = doc
           ELSE /\ doc' = << Branch("Document", << Branch("CstmrCdtTrfInitn",
                              << build_grp_hdr(batch[1], payments, id.value, now2) >>) >>) >>
                /\ pc' = "pmt_inf"
                /\ error' = error
    /\ UNCHANGED <<fieldnames, xsd_path, rows, line_no, batch, payments, exec_dates, tx_i,
                   xml_out, schema_result, result, iban_in, iban_out>>

BuildPmtInf(now, hex) ==
    /\ pc = "pmt_inf"
    /\ LET id == make_pmt_inf_id(now, hex)
       IN  IF ~id.ok
           THEN Fail(Err("FieldTooLong", 0, "PmtInfId")) /\ doc' = doc
           ELSE /\ doc' = << [doc[1] EXCEPT !.children[1] =
                                AppendChild(@, build_pmt_inf(batch[1], payments, id.value))] >>
                /\ pc' = "txs"
                /\ error' = error
    /\ UNCHANGED <<fieldnames, xsd_path, rows, line_no, batch, payments, exec_dates, tx_i,
                   xml_out, schema_result, result, iban_in, iban_out>>

\* one pass of "for r in payments: build_cdt_trf_tx_inf(pmt, r)"
BuildCdtTrfTxInf ==
    /\ pc = "txs"
    /\ tx_i < Len(payments)
    /\ doc' = << [doc[1] EXCEPT !.children[1].children[2] =
                    AppendChild(@, build_cdt_trf_tx_inf(NextPayment(payments, tx_i + 1)))] >>
    /\ tx_i' = tx_i + 1
    /\ UNCHANGED <<fieldnames, xsd_path, rows, line_no, batch, payments, exec_dates,
                   xml_out, schema_result, result, error, pc, iban_in, iban_out>>

\* xml_out = xml_pretty(tree)
Serialize ==
    /\ pc = "txs"
    /\ tx_i = Len(payments)
    /\ LET r == xml_pretty(doc[1])
       IN  IF r.ok
           THEN xml_out' = r.value /\ pc' = "validate" /\ error' = error
           ELSE xml_out' = xml_out /\ Fail(Err("ExpatError", 0, ""))
    /\ UNCHANGED <<fieldnames, xsd_path, rows, line_no, batch, payments, exec_dates, doc, tx_i,
                   schema_result, result, iban_in, iban_out>>

\* xsd_path is not None and xsd_path.exists(): validate_against_xsd, whose
\* verdict is the schema validator's; then return xml_out
ValidateAgainstXsd(verdict) ==
    /\ pc = "validate"
    /\ xsd_path' = "present"
    /\ IF verdict
       THEN schema_result' = "valid" /\ result' = <<xml_out>> /\ pc' = "done" /\ error' = error
       ELSE schema_result' = "invalid" /\ result' = result /\ Fail(Err("SchemaViolation", 0, ""))
    /\ UNCHANGED <<fieldnames, rows, line_no, batch, payments, exec_dates, doc, tx_i,
                   xml_out, iban_in, iban_out>>

\* xsd_path is None, or no file exists at it: validation is skipped;
\* return xml_out
ReturnUnvalidated(path) ==
    /\ pc = "validate"
    /\ xsd_path' = path
    /\ schema_result' = "skipped"
    /\ result' = <<xml_out>>
    /\ pc' = "done"
    /\ UNCHANGED <<fieldnames, rows, line_no, batch, payments, exec_dates, doc, tx_i,
                   xml_out, error, iban_in, iban_out>>

Next ==
    \/ CheckHeader
    \/ \E row \in RowChoices(fieldnames) : ReadRow(row)
    \/ EndOfRows
    \/ \E now1 \in Clock, hex \in UuidHex, now2 \in Clock : BuildGrpHdr(now1, hex, now2)
    \/ \E now \in Clock, hex \in UuidHex : BuildPmtInf(now, hex)
    \/ BuildCdtTrfTxInf
    \/ Serialize
    \/ \E verdict \in BOOLEAN : ValidateAgainstXsd(verdict)
    \/ \E path \in {"None", "absent"} : ReturnUnvalidated(path)

Spec == Init /\ [][Next]_vars

(***************************************************************************)
(* iban_is_valid called on its own, on texts typed one character at a      *)
(* time: a country code in either case, check digits, then digits, letters *)
(* and spaces.                                                             *)
(***************************************************************************)
MaxIbanLen == 11

IbanChars(pos) ==
    IF pos = 1 THEN {"G", "p"}
    ELSE IF pos = 2 THEN {"B"}
    ELSE IF pos = 3 THEN {"1"}
    ELSE IF pos = 4 THEN {"3", "9"}
    ELSE {"0", "Z", " "}

IbanInit ==
    /\ fieldnames = CSV_HEADER
    /\ xsd_path = ""
    /\ rows = <<>>
    /\ line_no = 2
    /\ batch = <<>>
    /\ payments = <<>>
    /\ exec_dates = {}
    /\ doc = <<>>
    /\ tx_i = 0
    /\ xml_out = <<>>
    /\ schema_result = ""
    /\ result = <<>>
    /\ error = NoError
    /\ pc = "header"
    /\ iban_in = <<>>
    /\ iban_out = <<>>

\* the caller's text grows by one character
IbanType(ch) ==
    /\ iban_out = <<>>
    /\ Len(iban_in) < MaxIbanLen
    /\ iban_in' = Append(iban_in, ch)
    /\ UNCHANGED <<convVars, iban_out>>

\* iban_is_valid(iban_in): what it returns, whether the pattern matched, and
\* the value its local `remainder` ended with (-1: the loop never ran)
IbanCheck ==
    /\ iban_out = <<>>
    /\ LET s == Upper(RemoveSpaces(normalize_text(iban_in)))
       IN  iban_out' = << [valid |-> iban_is_valid(iban_in),
                           matched |-> IBAN_REGEX(s),
                           remainder |-> IF IBAN_REGEX(s) THEN iban_remainder(s) ELSE -1] >>
    /\ UNCHANGED <<convVars, iban_in>>

IbanNext ==
    \/ \E ch \in IbanChars(Len(iban_in) + 1) : IbanType(ch)
    \/ IbanCheck

IbanSpec == IbanInit /\ [][IbanNext]_vars

(***************************************************************************)
(* Reading the inputs and the produced document, for the properties below  *)
(***************************************************************************)
\* the call has returned or raised
Finished == pc \in {"done", "failed"}

\* a row's debtor fields and its date, as the document is to carry them
DebtorOf(row) ==
    << normalize_text(RowGet(row, Nome_ORDENANTE)),
       normalize_text(RowGet(row, NIF_ORDENANTE)),
       Upper(RemoveSpaces(normalize_text(RowGet(row, IBAN_ORDENANTE)))),
       Upper(normalize_text(RowGet(row, BIC_ORDENANTE))) >>
DateOf(row) == parse_date_pt(RowGet(row, Data_EXECUCAO))

\* a row's amount and creditor fields, as the document is to carry them
CreditorOf(row) ==
    << normalize_text(RowGet(row, Nome_FORNECEDOR)),
       Upper(RemoveSpaces(normalize_text(RowGet(row, IBAN_FORNECEDOR)))),
       Upper(normalize_text(RowGet(row, BIC_FORNECEDOR))) >>

\* a text is an IBAN / a BIC
ValidIban(s) == IBAN_REGEX(s) /\ iban_remainder(s) = 1
ValidBic(s) == BICFI_REGEX(s)

\* the debtor fields d each pass their own validation
DebtorValid(d) ==
    /\ Len(d[1]) <= MAX_NAME
    /\ IsDigitStr(d[2])
    /\ Len(d[2]) <= MAX_NIF
    /\ ValidBic(d[4])
    /\ ValidIban(d[3])

\* the creditor fields c each pass their own validation
CreditorValid(c) ==
    /\ Len(c[1]) <= MAX_NAME
    /\ c[3] = <<>> \/ ValidBic(c[3])
    /\ ValidIban(c[2])

\* the row's debtor fields and date each pass their own validation
DebtorFieldsValid(row) == DateOf(row).ok /\ DebtorValid(DebtorOf(row))

\* the row's amount and creditor fields each pass their own validation
CreditorFieldsValid(row) ==
    parse_decimal_eur(RowGet(row, Valor)).ok /\ CreditorValid(CreditorOf(row))

RowFieldsValid(row) == DebtorFieldsValid(row) /\ CreditorFieldsValid(row)

\* the first descendant of node along a path of tags, <<>> when there is none
RECURSIVE Find(_, _)
Find(node, path) ==
    IF path = <<>> THEN <<node>>
    ELSE LET c == SelectSeq(node.children, LAMBDA n : n.tag = Head(path))
         IN  IF c = <<>> THEN <<>> ELSE Find(c[1], Tail(path))

TextAt(node, path) == Find(node, path)[1].text

\* the document has its PmtInf
HasPmtInf == doc # <<>> /\ Len(doc[1].children[1].children) = 2
GrpHdr == doc[1].children[1].children[1]
PmtInf == doc[1].children[1].children[2]
Txs == SelectSeq(PmtInf.children, LAMBDA n : n.tag = "CdtTrfTxInf")

\* the texts of the elements of the serialized document that have a tag
TextsOf(lines, tag) ==
    LET sel == SelectSeq(lines, LAMBDA l : l.tag = tag)
    IN  [i \in DOMAIN sel |-> sel[i].text]

\* a text of digits with exactly two decimals, and its number of cents
TwoDecimals(t) ==
    /\ Len(t) >= 4
    /\ t[Len(t) - 2] = "."
    /\ \A i \in DOMAIN t : i # Len(t) - 2 => IsDigit(t[i])
CentsOfText(t) == StrToNat(SelectSeq(t, IsDigit), 0)

RECURSIVE SumCents(_)
SumCents(texts) ==
    IF texts = <<>> THEN 0 ELSE CentsOfText(Head(texts)) + SumCents(Tail(texts))

(***************************************************************************)
(* Properties of the conversion (Spec)                                     *)
(***************************************************************************)
\* the conditions under which the conversion is to return XML: the columns
\* are there, there is a row and every row passes every validation, the
\* rows agree on debtor and date
InputAcceptable ==
    /\ fieldnames # NoFieldnames
    /\ MissingColumns(fieldnames) = <<>>
    /\ rows # <<>>
    /\ LET date1 == DateOf(rows[1])
       IN  \A k \in DOMAIN rows : DateOf(rows[k]) = date1
    /\ LET debtor1 == DebtorOf(rows[1])
       IN  \A k \in DOMAIN rows : DebtorOf(rows[k]) = debtor1
    /\ \A k \in DOMAIN rows : RowFieldsValid(rows[k])

\* C1: once the call has ended, it has returned XML exactly when the input
\* is acceptable and the schema did not reject the document; otherwise it
\* has failed and returned nothing.
C1_AllOrNothing ==
    /\ pc = "done" =>
           /\ result # <<>>
           /\ InputAcceptable
           /\ \/ xsd_path \in {"None", "absent"} /\ schema_result = "skipped"
              \/ xsd_path = "present" /\ schema_result = "valid"
    /\ pc = "failed" =>
           /\ result = <<>>
           /\ (xsd_path = "present" /\ schema_result = "invalid") \/ ~InputAcceptable

\* the two CtrlSum texts ctrl are equal, have two decimals, and their value
\* is the sum of the InstdAmt texts amts, of which there is one per row
CtrlSumIsTotal(ctrl, amts) ==
    /\ Len(ctrl) = 2
    /\ ctrl[1] = ctrl[2]
    /\ TwoDecimals(ctrl[1])
    /\ Len(amts) = Len(rows)
    /\ CentsOfText(ctrl[1]) = SumCents(amts)

\* C2: in every serialized document the two CtrlSum texts are equal, have
\* two decimals, and their value is the sum of the InstdAmt texts, of which
\* there is one per row.
C2_CtrlSum ==
    xml_out # <<>> => CtrlSumIsTotal(TextsOf(xml_out, "CtrlSum"), TextsOf(xml_out, "InstdAmt"))

\* C2: the amounts 100,00 and 50,50 were converted and both CtrlSum read 150.50
C2_Witness ==
    /\ pc = "done"
    /\ Len(rows) = 2
    /\ RowGet(rows[1], Valor) = <<"1", "0", "0", ",", "0", "0">>
    /\ RowGet(rows[2], Valor) = <<"5", "0", ",", "5", "0">>
    /\ TextsOf(result[1], "CtrlSum") = << <<"1", "5", "0", ".", "5", "0">>, <<"1", "5", "0", ".", "5", "0">> >>

\* C3: every PaymentRow the parser has produced has an amount above 0.00.
C3_AmountPositive == \A i \in DOMAIN payments : payments[i].amount > 0

SingleFieldErrors ==
    {"FieldTooLong", "InvalidAmount", "NonPositiveAmount", "InvalidDate", "InvalidIban",
     "InvalidBic", "InvalidTaxId"}

\* C4: a single-field validation failure carries the number of the row it
\* was raised on (the k-th row is numbered k + 1) and a field label.
C4_ErrorCarriesRowAndLabel ==
    (pc = "failed" /\ error.type \in SingleFieldErrors) =>
        /\ error.line = Len(rows) + 1
        /\ error.label # ""

\* the required columns that no received name equals, case and surrounding
\* whitespace apart
AbsentColumns(names) ==
    SelectSeq(CSV_HEADER,
              LAMBDA c : \A i \in DOMAIN names : Upper(normalize_text(names[i])) # Upper(c))

\* C5: when required columns are absent (case and whitespace apart) the call
\* fails with MissingColumns listing exactly those, before any row is read;
\* when none is absent the column check passes and each row's value for a
\* required column is the cell under the header name that stands for it.
C5_HeaderCheck ==
    (fieldnames # NoFieldnames /\ pc # "header") =>
        IF AbsentColumns(fieldnames) # <<>>
        THEN /\ pc = "failed"
             /\ error.type = "MissingColumns"
             /\ Range(error.missing) = Range(AbsentColumns(fieldnames))
             /\ rows = <<>>
        ELSE /\ error.type # "MissingColumns"
             /\ \A k \in DOMAIN rows : \A c \in Range(CSV_HEADER) :
                    \E h \in DOMAIN rows[k] :
                        /\ Upper(normalize_text(h)) = Upper(c)
                        /\ RowGet(rows[k], c) = rows[k][h]

\* the rows read so far: two or more, on two or more dates, one debtor,
\* every row valid on its own
SameDebtorOtherDates ==
    /\ Len(rows) >= 2
    /\ LET date1 == DateOf(rows[1])
       IN  \E k \in DOMAIN rows : DateOf(rows[k]) # date1
    /\ LET debtor1 == DebtorOf(rows[1])
       IN  \A k \in DOMAIN rows : DebtorOf(rows[k]) = debtor1
    /\ \A k \in DOMAIN rows : RowFieldsValid(rows[k])

\* C6: rows that are valid one by one and have one debtor but several dates
\* are all read and kept, and when the rows end the call fails with
\* InconsistentExecutionDate.
C6_ExecutionDate ==
    \/ pc = "rows" /\ Len(payments) = Len(rows)
    \/ pc = "failed" /\ error.type = "InconsistentExecutionDate" /\ Len(payments) = Len(rows)
    \/ ~SameDebtorOtherDates

\* C6: three rows, the last one alone on another date, ended in
\* InconsistentExecutionDate
C6_Witness ==
    /\ pc = "failed"
    /\ error.type = "InconsistentExecutionDate"
    /\ Len(rows) = 3
    /\ DateOf(rows[2]) = DateOf(rows[1])
    /\ DateOf(rows[3]) # DateOf(rows[1])
    /\ SameDebtorOtherDates

\* the batch header made of debtor fields d and a date
HeaderFrom(d, date) ==
    [debtor_name |-> d[1], debtor_nif |-> d[2], debtor_iban |-> d[3], debtor_bicfi |-> d[4],
     exec_date |-> date]
HeaderOf(row) == HeaderFrom(DebtorOf(row), DateOf(row).value)

\* row k was the last one read and the call failed on it with
\* InconsistentDebtor and the row's number
FailedAsOtherDebtor(k) ==
    /\ k = Len(rows)
    /\ pc = "failed"
    /\ error = Err("InconsistentDebtor", k + 1, "")

\* row k, with valid debtor fields d and a valid date, and a header unlike
\* header1, failed with InconsistentDebtor
OtherHeaderFails(k, d, header1) ==
    (DateOf(rows[k]).ok /\ DebtorValid(d) /\ HeaderFrom(d, DateOf(rows[k]).value) # header1)
        => FailedAsOtherDebtor(k)

\* C7, as stated: a later row whose debtor fields and date are valid and
\* whose five header fields are not those of the first row fails with
\* InconsistentDebtor and its number.
C7_FiveFieldsCompared ==
    LET header1 == HeaderOf(rows[1])
    IN  \A k \in 2..Len(rows) : OtherHeaderFails(k, DebtorOf(rows[k]), header1)

\* row k, if its debtor fields d and its date are valid, failed with
\* InconsistentDebtor exactly when d is not debtor1
OtherDebtorFails(k, d, debtor1) ==
    (DateOf(rows[k]).ok /\ DebtorValid(d)) =>
        IF d # debtor1
        THEN FailedAsOtherDebtor(k)
        ELSE ~(k = Len(rows) /\ pc = "failed" /\ error.type = "InconsistentDebtor")

\* C7, amended: while rows are read, and when reading them has failed, the
\* header is the first row's; a later row whose debtor fields and date are
\* valid fails with InconsistentDebtor and its number exactly when its
\* debtor name, tax id, IBAN or BIC is not the first row's, whatever its
\* amount and creditor fields; its date is not compared.
C7_FourFieldsCompared ==
    (pc \in {"rows", "failed"} /\ rows # <<>>) =>
        LET debtor1 == DebtorOf(rows[1])
        IN  /\ (DateOf(rows[1]).ok /\ DebtorValid(debtor1))
                   => batch = <<HeaderFrom(debtor1, DateOf(rows[1]).value)>>
            /\ \A k \in 2..Len(rows) : OtherDebtorFails(k, DebtorOf(rows[k]), debtor1)

\* C7: a second row with another debtor BIC and a creditor IBAN that is not
\* valid failed with InconsistentDebtor, row 3
C7_Witness ==
    /\ Len(rows) = 2
    /\ FailedAsOtherDebtor(2)
    /\ DebtorFieldsValid(rows[2])
    /\ DebtorOf(rows[2])[4] # DebtorOf(rows[1])[4]
    /\ ~CreditorFieldsValid(rows[2])

\* C8: the i-th CdtTrfTxInf has a CdtrAgt exactly when the i-th row's
\* creditor BIC is not blank once normalized, the CdtrAgt then holds a
\* BICFI whose text is a BIC of 8 or 11 characters, and no PaymentRow has
\* the empty string as creditor BIC.
C8_CreditorAgent ==
    /\ \A i \in DOMAIN payments : payments[i].creditor_bicfi # <<>>
    /\ HasPmtInf =>
           \A i \in DOMAIN Txs :
               /\ (Find(Txs[i], <<"CdtrAgt">>) # <<>>)
                      <=> (normalize_text(RowGet(rows[i], BIC_FORNECEDOR)) # <<>>)
               /\ Find(Txs[i], <<"CdtrAgt">>) # <<>> =>
                      /\ Find(Txs[i], <<"CdtrAgt", "FinInstnId", "BICFI">>) # <<>>
                      /\ BICFI_REGEX(TextAt(Txs[i], <<"CdtrAgt", "FinInstnId", "BICFI">>))

\* the transaction carries creditor name, IBAN and BIC c and the row's amount
TxCarriesRow(tx, row, c) ==
    /\ Find(tx, <<"Cdtr", "Nm">>) # <<>>
    /\ TextAt(tx, <<"Cdtr", "Nm">>) = c[1]
    /\ Find(tx, <<"CdtrAcct", "Id", "IBAN">>) # <<>>
    /\ TextAt(tx, <<"CdtrAcct", "Id", "IBAN">>) = c[2]
    /\ IF c[3] = <<>>
       THEN Find(tx, <<"CdtrAgt">>) = <<>>
       ELSE /\ Find(tx, <<"CdtrAgt", "FinInstnId", "BICFI">>) # <<>>
            /\ TextAt(tx, <<"CdtrAgt", "FinInstnId", "BICFI">>) = c[3]
    /\ Find(tx, <<"Amt", "InstdAmt">>) # <<>>
    /\ CentsOfText(TextAt(tx, <<"Amt", "InstdAmt">>)) = parse_decimal_eur(RowGet(row, Valor)).value

\* C9: on success PmtInf has one CdtTrfTxInf per row, the i-th carrying the
\* i-th row's creditor name, IBAN, BIC and amount, and NbOfTxs in GrpHdr
\* and in PmtInf is the number of rows.
C9_OneTxPerRow ==
    pc = "done" =>
        /\ Len(Txs) = Len(rows)
        /\ \A i \in DOMAIN rows : TxCarriesRow(Txs[i], rows[i], CreditorOf(rows[i]))
        /\ StrToNat(TextAt(GrpHdr, <<"NbOfTxs">>), 0) = Len(rows)
        /\ StrToNat(TextAt(PmtInf, <<"NbOfTxs">>), 0) = Len(rows)

\* C9: three rows were converted, the first two with different amounts and
\* the second without a creditor BIC
C9_Witness ==
    /\ pc = "done"
    /\ Len(rows) = 3
    /\ RowGet(rows[1], Valor) # RowGet(rows[2], Valor)
    /\ RowGet(rows[2], BIC_FORNECEDOR) = None
    /\ RowGet(rows[1], BIC_FORNECEDOR) # None

(***************************************************************************)
(* Properties of iban_is_valid (IbanSpec)                                  *)
(***************************************************************************)
\* value of a character of an IBAN: 0..9, A = 10 ... Z = 35
CharValue(c) == IF IsDigit(c) THEN DigitVal(c) ELSE IndexOf(UPPER, c) + 9

\* the number that chars spell, character values written in decimal one
\* after the other, modulo m: from the right, acc + value * weight with
\* weight the power of ten of the place
RECURSIVE NumberMod(_, _, _, _)
NumberMod(chars, m, weight, acc) ==
    IF chars = <<>> THEN acc
    ELSE LET v == CharValue(chars[Len(chars)])
         IN  NumberMod(SubSeq(chars, 1, Len(chars) - 1), m,
                       (weight * (IF v < 10 THEN 10 ELSE 100)) % m,
                       (acc + v * weight) % m)

\* the text as iban_is_valid matches it, and with its first four characters
\* moved to the end
IbanText == Upper(RemoveSpaces(normalize_text(iban_in)))
IbanRearranged == SubSeq(IbanText, 5, Len(IbanText)) \o SubSeq(IbanText, 1, 4)

\* C10: for a text that matches the pattern, the chunked reduction ends with
\* the remainder of the whole number modulo 97, and iban_is_valid returns
\* true exactly when that remainder is 1.
C10_ChunkedMod97 ==
    (iban_out # <<>> /\ IBAN_REGEX(IbanText)) =>
        /\ iban_out[1].matched
        /\ iban_out[1].remainder = NumberMod(IbanRearranged, 97, 1, 0)
        /\ iban_out[1].valid <=> (NumberMod(IbanRearranged, 97, 1, 0) = 1)

\* C10: a text with a lower-case letter was found valid; its digits make
\* two chunks, the second shorter than nine and starting with 0
C10_Witness ==
    /\ iban_out # <<>>
    /\ iban_out[1].valid
    /\ "p" \in Range(iban_in)
    /\ Len(IbanDigits(IbanRearranged)) > IBAN_CHUNK
    /\ Len(IbanDigits(IbanRearranged)) % IBAN_CHUNK # 0
    /\ IbanDigits(IbanRearranged)[IBAN_CHUNK + 1] = "0"

====
